---- MODULE Spec2Model ----
(***************************************************************************)
(* A model of contract.py: the contract classes (AnyC, NullC, IntC,        *)
(* FloatC, StringC, OrC, ListC, DictC, CallC), the coercion helper         *)
(* Contract._contract and the guard decorator.                             *)
(*                                                                         *)
(* Python objects live in a heap, a sequence of records; a reference is an *)
(* index into it.  Every object carries cls, the name of its class.        *)
(* Python values handed to check are tagged records [t, n]: t is the       *)
(* Python type and n the numeric magnitude (for a string, its length); a   *)
(* list value also carries "items" and a dict value "m".  The outcome of a *)
(* call is a record with exc = "" for a normal return and otherwise the    *)
(* class of the exception raised, with its message in msg.                 *)
(***************************************************************************)
EXTENDS Integers, Sequences, FiniteSets, TLC

VARIABLES heap, contract, value, result, op, ret, tried, frame

vars == <<heap, contract, value, result, op, ret, tried, frame>>

(***************************************************************************)
(* Bounds of the model.                                                    *)
(***************************************************************************)
MaxNum == 3

MaxLen == 3

MaxObjs == 3

MaxAlts == 2

MaxNames == 2

MaxArgs == 2

(***************************************************************************)
(* Python values and call outcomes.                                        *)
(***************************************************************************)
None == <<>>

Some(x) == <<x>>

PyInt(n) == [t |-> "int", n |-> n]

PyFloat(n) == [t |-> "float", n |-> n]

PyStr(n) == [t |-> "str", n |-> n]

PyNone == [t |-> "NoneType", n |-> 0]

PyList(items) == [t |-> "list", n |-> Len(items), items |-> items]

PyDict(m) == [t |-> "dict", n |-> Cardinality(DOMAIN m), m |-> m]

Returned == [exc |-> "", msg |-> ""]

Raised(exc, msg) == [exc |-> exc, msg |-> msg]

NotCalled == [exc |-> "not called", msg |-> ""]

NoValue == [t |-> "no value", n |-> 0]

\* The index before the first of the heap: a reference to no object.
NoRef == Len(<<>>)

\* The call last made: its name and its operands.
Call(name, x, y) == [name |-> name, x |-> x, y |-> y]

NoCall == [name |-> "", x |-> <<>>, y |-> <<>>]

\* The activation of a guarded function: where it is (pc), the (name, value)
\* pairs still to check, how often the underlying function was invoked and
\* what it returned.
NoFrame == [pc |-> "idle", pending |-> <<>>, invoked |-> 0, returned |-> <<>>]

\* A call that returns a reference: the heap it leaves and the reference.
Ref(h, r) == [exc |-> "", msg |-> "", h |-> h, ref |-> r]

\* A call that raises: the heap is left as the caller saw it (what the call
\* allocated is garbage).
Raise(h, exc, msg) == [exc |-> exc, msg |-> msg, h |-> h, ref |-> NoRef]

\* Allocation of a new object.
Alloc(h, obj) == Ref(Append(h, obj), Len(h) + 1)

SeqsUpTo(S, n) == UNION {[1..k -> S] : k \in 0..n}

Contract_failure(message) == Raised("ContractValidationError", message)

(***************************************************************************)
(* A parameter given where a contract is expected: an object (by           *)
(* reference) or a class (by name).                                        *)
(***************************************************************************)
Instance(r) == [kind |-> "instance", ref |-> r, cls |-> ""]

Class(name) == [kind |-> "class", ref |-> NoRef, cls |-> name]

ContractClasses ==
    {"AnyC", "NullC", "IntC", "FloatC", "StringC", "OrC", "ListC", "DictC",
     "CallC"}

\* isinstance(p, Contract)
IsContractInstance(h, p) ==
    p.kind = "instance" /\ h[p.ref].cls \in ContractClasses

(***************************************************************************)
(* IntC and FloatC.                                                        *)
(***************************************************************************)
IntC_init(min_, max_) == [cls |-> "IntC", min |-> min_, max |-> max_]

FloatC_init(min_, max_) == [cls |-> "FloatC", min |-> min_, max |-> max_]

IntC_check_strict(self, v) ==
    IF v.t # "int" THEN Contract_failure("value is not int")
    ELSE IF self.min # None /\ v.n <= self.min[1]
         THEN Contract_failure("value is less than " \o ToString(self.min[1]))
    ELSE IF self.max # None /\ v.n > self.max[1]
         THEN Contract_failure("value is greater than " \o ToString(self.max[1]))
    ELSE Returned

IntC_check(self, v) ==
    IF v.t # "int" THEN Contract_failure("value is not int")
    ELSE IF self.min # None /\ v.n < self.min[1]
         THEN Contract_failure("value is less than " \o ToString(self.min[1]))
    ELSE IF self.max # None /\ v.n > self.max[1]
         THEN Contract_failure("value is greater than " \o ToString(self.max[1]))
    ELSE Returned

FloatC_check(self, v) ==
    IF v.t # "float" THEN Contract_failure("value is not float")
    ELSE IF self.min # None /\ v.n < self.min[1]
         THEN Contract_failure("value is less than " \o ToString(self.min[1]))
    ELSE IF self.max # None /\ v.n > self.max[1]
         THEN Contract_failure("value is greater than " \o ToString(self.max[1]))
    ELSE Returned

(***************************************************************************)
(* AnyC, NullC, StringC.                                                   *)
(***************************************************************************)
AnyC_init == [cls |-> "AnyC"]

AnyC_check(self, v) == Returned

NullC_init == [cls |-> "NullC"]

NullC_check(self, v) ==
    IF v.t # "NoneType" THEN Contract_failure("value should be None")
    ELSE Returned

StringC_init(allow_blank) == [cls |-> "StringC", allow_blank |-> allow_blank]

StringC_check(self, v) ==
    IF v.t # "str" THEN Contract_failure("value is not string")
    ELSE IF ~self.allow_blank /\ v.n = 0
         THEN Contract_failure("blank value is not allowed")
    ELSE Returned

(***************************************************************************)
(* Contract._contract and the call cls() of a class without arguments.     *)
(***************************************************************************)
RECURSIVE Contract_contract(_, _)

\* map(self._contract, contracts), from index i on; refs are the results so far
RECURSIVE MapContract(_, _, _, _)
MapContract(h, params, i, refs) ==
    IF i > Len(params) THEN [exc |-> "", msg |-> "", h |-> h, refs |-> refs]
    ELSE LET r == Contract_contract(h, params[i])
         IN IF r.exc # ""
            THEN [exc |-> r.exc, msg |-> r.msg, h |-> h, refs |-> <<>>]
            ELSE MapContract(r.h, params, i + 1, Append(refs, r.ref))

(***************************************************************************)
(* OrC.  self.contracts is a Python list of references, mutated in place   *)
(* by <<.                                                                  *)
(***************************************************************************)
OrC_init(h, params) ==
    LET m == MapContract(h, params, 1, <<>>)
    IN IF m.exc # "" THEN Raise(h, m.exc, m.msg)
       ELSE Alloc(m.h, [cls |-> "OrC", contracts |-> m.refs])

OrC_lshift(h, self, p) ==
    LET r == Contract_contract(h, p)
    IN IF r.exc # "" THEN Raise(h, r.exc, r.msg)
       ELSE Ref([r.h EXCEPT ![self].contracts = Append(@, r.ref)], self)

\* Contract.__or__
Contract_or(h, self, p) == OrC_init(h, <<Instance(self), p>>)

\* OrC without an __or__ of its own: it inherits Contract.__or__
OrC_or_inherited(h, self, p) == Contract_or(h, self, p)

\* OrC.__or__
OrC_or(h, self, p) == OrC_lshift(h, self, p)

\* OrCMeta.__lshift__: cls() << other
OrCMeta_lshift(h, p) ==
    LET o == OrC_init(h, <<>>)
        r == OrC_lshift(o.h, o.ref, p)
    IN IF r.exc # "" THEN Raise(h, r.exc, r.msg) ELSE r

(***************************************************************************)
(* ListC.                                                                  *)
(***************************************************************************)
ListC_init(h, p, min_length, max_length) ==
    LET r == Contract_contract(h, p)
    IN IF r.exc # "" THEN Raise(h, r.exc, r.msg)
       ELSE Alloc(r.h, [cls |-> "ListC", contract |-> r.ref,
                        min_length |-> min_length, max_length |-> max_length])

(***************************************************************************)
(* DictC.  Python 2 enumerates the keys of a dict in an order fixed by the *)
(* keys; KeyOrder is that order, and Keys(S) the keys of S in it.          *)
(***************************************************************************)
KeyOrder == <<"a", "b", "bar", "c", "eggs", "foo", "ham">>

Keys(S) == SelectSeq(KeyOrder, LAMBDA k : k \in S)

In(x, seq) == \E i \in 1..Len(seq) : seq[i] = x

\* for key, contract in contracts.items(): self.contracts[key] = ...
RECURSIVE DictC_coerce(_, _, _, _, _)
DictC_coerce(h, kwargs, keys, i, acc) ==
    IF i > Len(keys) THEN [exc |-> "", msg |-> "", h |-> h, contracts |-> acc]
    ELSE LET r == Contract_contract(h, kwargs[keys[i]])
         IN IF r.exc # ""
            THEN [exc |-> r.exc, msg |-> r.msg, h |-> h, contracts |-> acc]
            ELSE DictC_coerce(r.h, kwargs, keys, i + 1,
                              [k \in DOMAIN acc \cup {keys[i]} |->
                                  IF k = keys[i] THEN r.ref ELSE acc[k]])

DictC_init(h, kwargs) ==
    LET m == DictC_coerce(h, kwargs, Keys(DOMAIN kwargs), 1, <<>>)
    IN IF m.exc # "" THEN Raise(h, m.exc, m.msg)
       ELSE Alloc(m.h, [cls |-> "DictC", optionals |-> <<>>, extras |-> <<>>,
                        allow_any |-> FALSE, contracts |-> m.contracts])

\* for name in names: ..., from index i on, on the object d
RECURSIVE DictC_extra_loop(_, _, _)
DictC_extra_loop(d, names, i) ==
    IF i > Len(names) THEN d
    ELSE IF names[i] = "*"
         THEN DictC_extra_loop([d EXCEPT !.allow_any = TRUE], names, i + 1)
         ELSE DictC_extra_loop([d EXCEPT !.extras = Append(@, names[i])],
                               names, i + 1)

DictC_allow_extra(h, self, names) ==
    Ref([h EXCEPT ![self] = DictC_extra_loop(@, names, 1)], self)

\* allow_optionals assigning the name instead of appending it
RECURSIVE DictC_optionals_assign(_, _, _)
DictC_optionals_assign(d, names, i) ==
    IF i > Len(names) THEN d
    ELSE IF names[i] = "*"
         THEN DictC_optionals_assign(
                  [d EXCEPT !.optionals = Keys(DOMAIN d.contracts)],
                  names, i + 1)
         ELSE DictC_optionals_assign(
                  [d EXCEPT !.optionals = <<names[i]>>], names, i + 1)

RECURSIVE DictC_optionals_loop(_, _, _)
DictC_optionals_loop(d, names, i) ==
    IF i > Len(names) THEN d
    ELSE IF names[i] = "*"
         THEN DictC_optionals_loop(
                  [d EXCEPT !.optionals = Keys(DOMAIN d.contracts)],
                  names, i + 1)
         ELSE DictC_optionals_loop(
                  [d EXCEPT !.optionals = Append(@, names[i])], names, i + 1)

DictC_allow_optionals(h, self, names) ==
    Ref([h EXCEPT ![self] = DictC_optionals_loop(@, names, 1)], self)

(***************************************************************************)
(* CallC.  A Python function is a record: callable, the number of its      *)
(* named arguments (args), of its defaults, and ret, what it returns for a *)
(* value of each type (None or a message).                                 *)
(***************************************************************************)
\* fn(value): a call with one positional argument
Apply(fn, v) ==
    IF fn.args - fn.defaults <= 1 /\ 1 <= fn.args
    THEN [exc |-> "", msg |-> "", ret |-> fn.ret[v.t]]
    ELSE [exc |-> "TypeError", msg |-> "wrong number of arguments",
          ret |-> None]

CallC_init(h, fn) ==
    IF ~fn.callable
    THEN Raise(h, "RuntimeError", "CallC argument should be callable")
    ELSE IF fn.args - fn.defaults > 1
    THEN Raise(h, "RuntimeError",
               "CallC argument should be one argument function")
    ELSE Alloc(h, [cls |-> "CallC", fn |-> fn])

CallC_check(self, v) ==
    LET error == Apply(self.fn, v)
    IN IF error.exc # "" THEN Raised(error.exc, error.msg)
       ELSE IF error.ret # None THEN Contract_failure(error.ret[1])
       ELSE Returned

(***************************************************************************)
(* cls(): a class called without arguments.  ListC and CallC have a        *)
(* required argument; int() is the int 0, which is no contract.            *)
(***************************************************************************)
New(h, cls) ==
    CASE cls = "AnyC" -> Alloc(h, AnyC_init)
      [] cls = "NullC" -> Alloc(h, NullC_init)
      [] cls = "IntC" -> Alloc(h, IntC_init(None, None))
      [] cls = "FloatC" -> Alloc(h, FloatC_init(None, None))
      [] cls = "StringC" -> Alloc(h, StringC_init(FALSE))
      [] cls = "OrC" -> OrC_init(h, <<>>)
      [] cls = "DictC" -> DictC_init(h, <<>>)
      [] cls \in {"ListC", "CallC"} ->
            Raise(h, "TypeError", "__init__() takes at least 2 arguments")
      [] OTHER -> Alloc(h, [cls |-> cls])

Contract_contract(h, p) ==
    IF IsContractInstance(h, p) THEN Ref(h, p.ref)
    ELSE IF p.kind # "class"
    THEN Raise(h, "TypeError", "issubclass() arg 1 must be a class")
    ELSE IF p.cls \in ContractClasses THEN New(h, p.cls)
    ELSE Raise(h, "RuntimeError", "should be instance or subclass of Contract")

\* ContractMeta.__or__: cls() | other
RECURSIVE BinOr(_, _, _)
ContractMeta_or(h, cls, p) ==
    LET o == New(h, cls)
        r == BinOr(o.h, Instance(o.ref), p)
    IN IF o.exc # "" THEN o
       ELSE IF r.exc # "" THEN Raise(h, r.exc, r.msg)
       ELSE r

\* x | y: the __or__ of type(x)
BinOr(h, x, y) ==
    IF x.kind = "class" THEN ContractMeta_or(h, x.cls, y)
    ELSE IF h[x.ref].cls = "OrC" THEN OrC_or(h, x.ref, y)
    ELSE Contract_or(h, x.ref, y)

(***************************************************************************)
(* check.  contract.check(value) dispatches on the class of the object at  *)
(* reference self; an object that is no contract has no check attribute.   *)
(***************************************************************************)
RECURSIVE check(_, _, _)

\* The loop of OrC.check without the generic reason: the failure of the last
\* sub-contract is the one raised.
RECURSIVE OrC_loop_last_reason(_, _, _, _)
OrC_loop_last_reason(h, contracts, v, i) ==
    IF i > Len(contracts)
    THEN [out |-> Contract_failure("no one contract matches"),
          tried |-> contracts]
    ELSE LET r == check(h, contracts[i], v)
         IN IF r.exc = "ContractValidationError" /\ i < Len(contracts)
            THEN OrC_loop_last_reason(h, contracts, v, i + 1)
            ELSE [out |-> r, tried |-> SubSeq(contracts, 1, i)]

\* for contract in self.contracts: try contract.check(value) ..., from index
\* i on.  tried is the sub-contracts whose check was called.
RECURSIVE OrC_loop(_, _, _, _)
OrC_loop(h, contracts, v, i) ==
    IF i > Len(contracts)
    THEN [out |-> Contract_failure("no one contract matches"),
          tried |-> contracts]
    ELSE LET r == check(h, contracts[i], v)
         IN IF r.exc = "ContractValidationError"
            THEN OrC_loop(h, contracts, v, i + 1)
            ELSE [out |-> r, tried |-> SubSeq(contracts, 1, i)]

OrC_check(h, self, v) == OrC_loop(h, self.contracts, v, 1).out

\* for item in value: self.contract.check(item), from index i on
RECURSIVE ListC_items(_, _, _, _)
ListC_items(h, self, items, i) ==
    IF i > Len(items) THEN Returned
    ELSE LET r == check(h, self.contract, items[i])
         IN IF r # Returned THEN r ELSE ListC_items(h, self, items, i + 1)

ListC_check_items_first(h, self, v) ==
    IF v.t # "list" THEN Contract_failure("value is not list")
    ELSE LET r == ListC_items(h, self, v.items, 1)
         IN IF r # Returned THEN r
    ELSE IF Len(v.items) < self.min_length
         THEN Contract_failure("list length is less than "
                               \o ToString(self.min_length))
    ELSE IF self.max_length # None /\ Len(v.items) > self.max_length[1]
         THEN Contract_failure("list length is greater than "
                               \o ToString(self.max_length[1]))
    ELSE Returned

ListC_check(h, self, v) ==
    IF v.t # "list" THEN Contract_failure("value is not list")
    ELSE IF Len(v.items) < self.min_length
         THEN Contract_failure("list length is less than "
                               \o ToString(self.min_length))
    ELSE IF self.max_length # None /\ Len(v.items) > self.max_length[1]
         THEN Contract_failure("list length is greater than "
                               \o ToString(self.max_length[1]))
    ELSE ListC_items(h, self, v.items, 1)

\* for key in self.contracts: ..., from index i of keys on
RECURSIVE DictC_check_presence(_, _, _, _)
DictC_check_presence(self, v, keys, i) ==
    IF i > Len(keys) THEN Returned
    ELSE IF ~In(keys[i], self.optionals) /\ keys[i] \notin DOMAIN v.m
         THEN Contract_failure(keys[i] \o " is required")
         ELSE DictC_check_presence(self, v, keys, i + 1)

\* check_item validating every key it finds, declared or not
DictC_check_item_no_extras(h, self, key, val) ==
    IF key \in DOMAIN self.contracts THEN check(h, self.contracts[key], val)
    ELSE IF ~self.allow_any
         THEN Contract_failure(key \o " is not allowed key")
    ELSE Returned

DictC_check_item(h, self, key, val) ==
    IF key \in DOMAIN self.contracts THEN check(h, self.contracts[key], val)
    ELSE IF ~self.allow_any /\ ~In(key, self.extras)
         THEN Contract_failure(key \o " is not allowed key")
    ELSE Returned

\* map(self.check_item, value.items()), from index i of keys on
RECURSIVE DictC_items(_, _, _, _, _)
DictC_items(h, self, v, keys, i) ==
    IF i > Len(keys) THEN Returned
    ELSE LET r == DictC_check_item(h, self, keys[i], v.m[keys[i]])
         IN IF r # Returned THEN r ELSE DictC_items(h, self, v, keys, i + 1)

DictC_check(h, self, v) ==
    IF v.t # "dict" THEN Contract_failure("value is not dict")
    ELSE LET p == DictC_check_presence(self, v, Keys(DOMAIN self.contracts), 1)
         IN IF p # Returned THEN p
            ELSE DictC_items(h, self, v, Keys(DOMAIN v.m), 1)

check(h, self, v) ==
    CASE h[self].cls = "AnyC" -> AnyC_check(h[self], v)
      [] h[self].cls = "NullC" -> NullC_check(h[self], v)
      [] h[self].cls = "IntC" -> IntC_check(h[self], v)
      [] h[self].cls = "FloatC" -> FloatC_check(h[self], v)
      [] h[self].cls = "StringC" -> StringC_check(h[self], v)
      [] h[self].cls = "OrC" -> OrC_check(h, h[self], v)
      [] h[self].cls = "ListC" -> ListC_check(h, h[self], v)
      [] h[self].cls = "DictC" -> DictC_check(h, h[self], v)
      [] h[self].cls = "CallC" -> CallC_check(h[self], v)
      [] OTHER -> Raised("AttributeError", "object has no attribute 'check'")

(***************************************************************************)
(* guard.  The decorator builds the mapping contracts with a test of its   *)
(* own, not Contract._contract: what is no Contract instance is called.    *)
(* The guard object stands for the closure over contracts; the decorated   *)
(* function is fn(a, b, c=None), which returns (a, b, c).                  *)
(***************************************************************************)
\* p(): a class makes an instance, a function returns None, anything else
\* is not callable.
PyCall(h, p) ==
    IF p.kind = "class" THEN New(h, p.cls)
    ELSE IF h[p.ref].cls = "function" THEN Alloc(h, [cls |-> "NoneType"])
    ELSE Raise(h, "TypeError", "object is not callable")

\* contract if isinstance(contract, Contract) else contract()
Guard_coerce(h, p) ==
    IF IsContractInstance(h, p) THEN Ref(h, p.ref) ELSE PyCall(h, p)

\* for name, contract in kwargs.items(): contracts[name] = ...
RECURSIVE Guard_loop(_, _, _, _, _)
Guard_loop(h, kwargs, keys, i, acc) ==
    IF i > Len(keys) THEN [exc |-> "", msg |-> "", h |-> h, contracts |-> acc]
    ELSE LET r == Guard_coerce(h, kwargs[keys[i]])
         IN IF r.exc # ""
            THEN [exc |-> r.exc, msg |-> r.msg, h |-> h, contracts |-> acc]
            ELSE Guard_loop(r.h, kwargs, keys, i + 1,
                            [k \in DOMAIN acc \cup {keys[i]} |->
                                IF k = keys[i] THEN r.ref ELSE acc[k]])

Guard_init(h, kwargs) ==
    LET m == Guard_loop(h, kwargs, Keys(DOMAIN kwargs), 1, <<>>)
    IN IF m.exc # "" THEN Raise(h, m.exc, m.msg)
       ELSE Alloc(m.h, [cls |-> "guard", contracts |-> m.contracts])

\* argspec.args of the decorated function
FnArgs == <<"a", "b", "c">>

Pair(name, v) == [name |-> name, value |-> v]

Min(a, b) == IF a < b THEN a ELSE b

\* zip(argspec.args, args)
Zip(names, args) ==
    [i \in 1..Min(Len(names), Len(args)) |-> Pair(names[i], args[i])]

\* the pairs decor leaves unchecked when it looks at positional arguments only
Decor_pairs_positional(args, kwargs, order) == Zip(FnArgs, args)

\* zip(argspec.args, args) + kwargs.items(); order is the order in which the
\* dict kwargs enumerates its keys
Decor_pairs(args, kwargs, order) ==
    Zip(FnArgs, args) \o [i \in 1..Len(order) |-> Pair(order[i], kwargs[order[i]])]

\* the call of fn with the arguments as given: the tuple (a, b, c) it returns
Fn(args, kwargs) ==
    [i \in 1..Len(FnArgs) |->
        IF i <= Len(args) THEN args[i]
        ELSE IF FnArgs[i] \in DOMAIN kwargs THEN kwargs[FnArgs[i]]
        ELSE PyNone]

(***************************************************************************)
(* The Or combinator: contracts are built with StringC(), NullC(),         *)
(* OrC(...), << and |, over at most MaxObjs objects holding at most        *)
(* MaxAlts sub-contract references in all, and checked against a string,   *)
(* None and an int.                                                        *)
(* No contract is made a sub-contract of itself, directly or through       *)
(* another OrC: the contracts form a tree or a DAG, never a cycle.         *)
(***************************************************************************)
OrLeafClasses == {"StringC", "NullC"}

OrValues == {PyStr(1), PyNone, PyInt(1)}

Refs(h) == 1..Len(h)

OrRefs(h) == {r \in Refs(h) : h[r].cls = "OrC"}

Operands(h) ==
    {Instance(r) : r \in Refs(h)} \cup {Class(c) : c \in OrLeafClasses \cup {"OrC"}}

RECURSIVE Reaches(_, _, _)
Reaches(h, a, b) ==
    \/ a = b
    \/ /\ h[a].cls = "OrC"
       /\ \E i \in 1..Len(h[a].contracts) : Reaches(h, h[a].contracts[i], b)

Acyclic(h, self, p) == p.kind = "instance" => ~Reaches(h, p.ref, self)

RECURSIVE Slots(_, _)
Slots(h, r) ==
    IF r = 0 THEN 0
    ELSE Slots(h, r - 1) + (IF h[r].cls = "OrC" THEN Len(h[r].contracts) ELSE 0)

WithinBounds(h) ==
    /\ Len(h) <= MaxObjs
    /\ Slots(h, Len(h)) <= MaxAlts

InitOr ==
    /\ heap = <<>>
    /\ contract = NoRef
    /\ value = NoValue
    /\ result = NotCalled
    /\ op = NoCall
    /\ ret = NoRef
    /\ tried = <<>>
    /\ frame = NoFrame

\* The state after a call that built or extended a contract with outcome r.
Built(call, r) ==
    /\ WithinBounds(r.h)
    /\ heap' = r.h
    /\ ret' = r.ref
    /\ result' = Raised(r.exc, r.msg)
    /\ op' = call
    /\ contract' = NoRef
    /\ value' = NoValue
    /\ tried' = <<>>
    /\ UNCHANGED frame

\* StringC(), NullC()
Construct(cls) == Built(Call("new", Class(cls), <<>>), New(heap, cls))

\* OrC(), OrC(a), OrC(a, b)
OrCons(params) == Built(Call("OrC", params, <<>>), OrC_init(heap, params))

\* self << p, and OrC << p
Lshift(x, p) ==
    IF x.kind = "class"
    THEN /\ x.cls = "OrC"
         /\ Built(Call("lshift", x, p), OrCMeta_lshift(heap, p))
    ELSE /\ x.ref \in OrRefs(heap)
         /\ Acyclic(heap, x.ref, p)
         /\ Built(Call("lshift", x, p), OrC_lshift(heap, x.ref, p))

\* x | y
Or(x, y) ==
    /\ x.kind = "instance" => Acyclic(heap, x.ref, y)
    /\ Built(Call("or", x, y), BinOr(heap, x, y))

\* heap[r].check(v)
Check(r, v) ==
    /\ contract' = r
    /\ value' = v
    /\ result' = check(heap, r, v)
    /\ tried' = IF heap[r].cls = "OrC"
                THEN OrC_loop(heap, heap[r].contracts, v, 1).tried
                ELSE <<>>
    /\ op' = Call("check", Instance(r), <<>>)
    /\ ret' = NoRef
    /\ UNCHANGED <<heap, frame>>

\* Contracts built with the constructors and <<, and checked.
NextOr ==
    \/ \E cls \in OrLeafClasses : Construct(cls)
    \/ \E params \in SeqsUpTo(Operands(heap), 2) : OrCons(params)
    \/ \E x \in Operands(heap), p \in Operands(heap) : Lshift(x, p)
    \/ \E r \in Refs(heap), v \in OrValues : Check(r, v)

SpecOr == InitOr /\ [][NextOr]_vars

\* Contracts built with the constructors and composed with |.
NextCompose ==
    \/ \E cls \in OrLeafClasses : Construct(cls)
    \/ \E params \in SeqsUpTo(Operands(heap), 2) : OrCons(params)
    \/ \E x \in Operands(heap), y \in Operands(heap) : Or(x, y)

SpecCompose == InitOr /\ [][NextCompose]_vars

Accepts(h, r, v) == check(h, r, v) = Returned

\* C1: OrC.check(v) returns iff the check of at least one sub-contract
\* returns; when every sub-contract fails it raises ContractValidationError
\* with the one generic reason, never a sub-contract's own; and the
\* sub-contracts tried are those up to the first that accepts, no further.
C1_OrCheck ==
    (op.name = "check" /\ heap[contract].cls = "OrC") =>
        LET subs == heap[contract].contracts
            good == {i \in 1..Len(subs) : Accepts(heap, subs[i], value)}
        IN /\ (result = Returned) <=> (good # {})
           /\ good = {} =>
                /\ result = Contract_failure("no one contract matches")
                /\ tried = subs
           /\ good # {} =>
                LET first == CHOOSE i \in good : \A j \in good : i <= j
                IN tried = SubSeq(subs, 1, first)

\* An OrC that was extended after construction accepts a value through its
\* first sub-contract and does not try the second.
C1_Witness ==
    /\ op.name = "check"
    /\ heap[contract].cls = "OrC"
    /\ Len(heap[contract].contracts) = 2
    /\ result = Returned
    /\ Len(tried) = 1

\* The alternatives an operand of | stands for, as objects: the
\* sub-contracts of an OrC, else the contract itself (for a class, the
\* instance cls() makes).
AltObjs(h, p) ==
    IF p.kind = "class"
    THEN (IF p.cls = "OrC" THEN <<>> ELSE <<New(<<>>, p.cls).h[1]>>)
    ELSE IF h[p.ref].cls = "OrC"
         THEN [i \in 1..Len(h[p.ref].contracts) |-> h[h[p.ref].contracts[i]]]
         ELSE <<h[p.ref]>>

\* The same as references, for an operand that is an object.
AltRefs(h, r) == IF h[r].cls = "OrC" THEN h[r].contracts ELSE <<r>>

IsOr(h, p) ==
    IF p.kind = "class" THEN p.cls = "OrC" ELSE h[p.ref].cls = "OrC"

\* No sub-contract of the OrC at r is an OrC.
Flat(h, r) ==
    \A i \in 1..Len(h[r].contracts) : h[h[r].contracts[i]].cls # "OrC"

FlatOperand(h, p) ==
    (p.kind = "instance" /\ h[p.ref].cls = "OrC") => Flat(h, p.ref)

Composed == op'.name = "or" /\ result'.exc = ""

\* C4 as claimed: x | y, for operands that are contracts, contract types or
\* flat OrCs on either side, is an OrC whose sub-contracts are all the
\* alternatives of x followed by all those of y, none of them an OrC.
C4_FlatBothSides ==
    [][(Composed /\ FlatOperand(heap, op'.x) /\ FlatOperand(heap, op'.y)) =>
          /\ AltObjs(heap', Instance(ret')) =
                 AltObjs(heap, op'.x) \o AltObjs(heap, op'.y)
          /\ Flat(heap', ret')]_vars

\* C4 as amended: x | y is an OrC whose sub-contracts are the alternatives
\* of the left operand x (the sub-contracts of x when x is an OrC, and then
\* x itself is the result; else x alone) followed by the right operand y as
\* one sub-contract, kept by reference when y is an object and made by cls()
\* when y is a class.  So the result is flat when x is flat and y is no OrC,
\* and holds y nested as its last sub-contract when y is an OrC.
C4_FlatOnTheLeft ==
    [][Composed =>
          LET subs == heap'[ret'].contracts
              n == Len(subs)
              x == op'.x
              y == op'.y
          IN /\ heap'[ret'].cls = "OrC"
             /\ n >= 1
             /\ IF x.kind = "instance"
                THEN /\ SubSeq(subs, 1, n - 1) = AltRefs(heap, x.ref)
                     /\ IsOr(heap, x) => ret' = x.ref
                ELSE /\ [i \in 1..(n - 1) |-> heap'[subs[i]]] = AltObjs(heap, x)
                     /\ \A i \in 1..(n - 1) : subs[i] \notin Refs(heap)
             /\ IF y.kind = "instance"
                THEN subs[n] = y.ref
                ELSE /\ subs[n] \notin Refs(heap)
                     /\ heap'[subs[n]] = New(<<>>, y.cls).h[1]
             /\ (FlatOperand(heap, x) /\ ~IsOr(heap, y)) => Flat(heap', ret')
             /\ IsOr(heap, y) => heap'[subs[n]].cls = "OrC"]_vars

\* An OrC of one alternative was composed with a second contract and is now
\* the flat OrC of both.
C4_Witness ==
    /\ op.name = "or"
    /\ result = Returned
    /\ op.x.kind = "instance"
    /\ ret = op.x.ref
    /\ Len(heap[ret].contracts) = 2
    /\ heap[heap[ret].contracts[1]].cls = "StringC"
    /\ heap[heap[ret].contracts[2]].cls = "NullC"

\* C5: x | y makes a new OrC and leaves its operands as they were: the
\* outcome of x.check(v) and of y.check(v) is the same after as before.
C5_OperandsUnchanged ==
    [][Composed =>
          /\ ret' \notin Refs(heap)
          /\ \A p \in {op'.x, op'.y} :
                p.kind = "instance" =>
                    \A v \in OrValues :
                        check(heap', p.ref, v) = check(heap, p.ref, v)]_vars

(***************************************************************************)
(* The dict contract: a DictC declared over some of the keys foo (IntC)    *)
(* and bar (StringC), widened by allow_extra and allow_optionals with one  *)
(* or two names each (a declared name, an undeclared name, the wildcard),  *)
(* while extras and optionals hold at most MaxNames names, and checked     *)
(* against dicts over foo, bar, eggs and against non-dicts.                *)
(***************************************************************************)
DictKwargs ==
    {<<>>,
     [k \in {"foo"} |-> Class("IntC")],
     [k \in {"foo", "bar"} |-> IF k = "foo" THEN Class("IntC")
                               ELSE Class("StringC")]}

DictNames == {"foo", "eggs", "*"}

DictValues ==
    {PyDict(m) : m \in UNION {[K -> {PyInt(1), PyStr(1)}] :
                                 K \in SUBSET {"foo", "bar", "eggs"}}}
        \cup {PyList(<<>>), PyNone}

InitDict ==
    /\ \E kwargs \in DictKwargs :
          LET d == DictC_init(<<>>, kwargs)
          IN heap = d.h /\ contract = d.ref
    /\ value = NoValue
    /\ result = NotCalled
    /\ op = NoCall
    /\ ret = NoRef
    /\ tried = <<>>
    /\ frame = NoFrame

\* The state after a builder call on the DictC, with outcome r.
Widened(call, r) ==
    /\ Len(r.h[contract].extras) <= MaxNames
    /\ Len(r.h[contract].optionals) <= MaxNames
    /\ heap' = r.h
    /\ ret' = r.ref
    /\ result' = Raised(r.exc, r.msg)
    /\ op' = call
    /\ value' = NoValue
    /\ UNCHANGED <<contract, tried, frame>>

AllowExtra(names) ==
    Widened(Call("allow_extra", names, <<>>),
            DictC_allow_extra(heap, contract, names))

AllowOptionals(names) ==
    Widened(Call("allow_optionals", names, <<>>),
            DictC_allow_optionals(heap, contract, names))

DictCheck(v) ==
    /\ value' = v
    /\ result' = check(heap, contract, v)
    /\ op' = Call("check", <<>>, <<>>)
    /\ ret' = NoRef
    /\ UNCHANGED <<heap, contract, tried, frame>>

NamesGiven == SeqsUpTo(DictNames, 2) \ {<<>>}

NextDict ==
    \/ \E names \in NamesGiven : AllowExtra(names)
    \/ \E names \in NamesGiven : AllowOptionals(names)
    \/ \E v \in DictValues : DictCheck(v)

SpecDict == InitDict /\ [][NextDict]_vars

\* The builder calls alone.
NextWiden ==
    \/ \E names \in NamesGiven : AllowExtra(names)
    \/ \E names \in NamesGiven : AllowOptionals(names)

SpecWiden == InitDict /\ [][NextWiden]_vars

\* The three conditions under which a DictC accepts a dict.
DictAccepts(h, d, m) ==
    /\ \A k \in DOMAIN d.contracts : In(k, d.optionals) \/ k \in DOMAIN m
    /\ \A k \in DOMAIN m \cap DOMAIN d.contracts :
          Accepts(h, d.contracts[k], m[k])
    /\ \A k \in DOMAIN m \ DOMAIN d.contracts : d.allow_any \/ In(k, d.extras)

\* C2: after any sequence of allow_extra / allow_optionals calls,
\* DictC.check(v) returns iff v is a dict in which every declared key not in
\* optionals is present, every declared key present has a value its contract
\* accepts, and every undeclared key present is in extras or allow_any is
\* set (whatever its value); otherwise, and for every non-dict, it raises
\* ContractValidationError.
C2_DictCheck ==
    op.name = "check" =>
        /\ (result = Returned) <=>
              (value.t = "dict" /\ DictAccepts(heap, heap[contract], value.m))
        /\ result # Returned => result.exc = "ContractValidationError"
        /\ value.t # "dict" => result = Contract_failure("value is not dict")

\* A dict with a permitted extra key whose value no declared contract would
\* accept, and with an optional declared key absent, is accepted.
C2_Witness ==
    /\ op.name = "check"
    /\ DOMAIN heap[contract].contracts = {"foo", "bar"}
    /\ In("eggs", heap[contract].extras)
    /\ In("foo", heap[contract].optionals)
    /\ ~heap[contract].allow_any
    /\ value.t = "dict"
    /\ DOMAIN value.m = {"bar", "eggs"}
    /\ result = Returned

WidenedNow == op'.name \in {"allow_extra", "allow_optionals"}

\* C10: allow_extra and allow_optionals return the DictC they were called
\* on, leave the declared key -> contract mapping as it was, and only widen:
\* every value accepted before the call is accepted after it.  A declared
\* key that was optional stays optional (also through the wildcard, which
\* sets optionals to the declared keys), and allow_optionals changes neither
\* extras nor allow_any, so an undeclared name made optional is no allowed
\* key.
C10_BuildersWiden ==
    [][WidenedNow =>
          LET before == heap[contract]
              after == heap'[contract]
          IN /\ ret' = contract
             /\ Len(heap') = Len(heap)
             /\ after.contracts = before.contracts
             /\ \A v \in DictValues :
                   Accepts(heap, contract, v) => Accepts(heap', contract, v)
             /\ \A k \in DOMAIN before.contracts :
                   In(k, before.optionals) => In(k, after.optionals)
             /\ op'.name = "allow_optionals" =>
                   /\ after.extras = before.extras
                   /\ after.allow_any = before.allow_any
             /\ (op'.name = "allow_optionals" /\ In("*", op'.x)) =>
                   \A k \in DOMAIN before.contracts : In(k, after.optionals)]_vars

\* allow_optionals("foo") and then allow_optionals("eggs", "*") on a DictC
\* declaring foo and bar: optionals is the snapshot of the declared keys.
C10_Witness ==
    /\ op.name = "allow_optionals"
    /\ op.x = <<"eggs", "*">>
    /\ DOMAIN heap[contract].contracts = {"foo", "bar"}
    /\ heap[contract].optionals = <<"bar", "foo">>
    /\ ret = contract

(***************************************************************************)
(* The call contract: CallC(fn) for a non-callable and for functions of up *)
(* to MaxArgs arguments, any number of them with defaults, that return     *)
(* None, a message or the empty message for a string and for an int; the   *)
(* CallC, once built, is checked against a string and an int.              *)
(***************************************************************************)
Messages == {None, Some("I want only foo!"), Some("")}

Functions ==
    {[callable |-> TRUE, args |-> a, defaults |-> d, ret |-> r] :
        a \in 0..MaxArgs, d \in 0..MaxArgs, r \in [{"str", "int"} -> Messages]}

NotCallable ==
    [callable |-> FALSE, args |-> 0, defaults |-> 0,
     ret |-> [t \in {"str", "int"} |-> None]]

CallValues == {PyStr(3), PyInt(1)}

\* CallC(fn), once
CallCons(fn) ==
    /\ op = NoCall
    /\ fn.defaults <= fn.args
    /\ LET r == CallC_init(heap, fn)
       IN /\ heap' = r.h
          /\ contract' = r.ref
          /\ ret' = r.ref
          /\ result' = Raised(r.exc, r.msg)
    /\ op' = Call("CallC", fn, <<>>)
    /\ UNCHANGED <<value, tried, frame>>

CallCheck(v) ==
    /\ contract # NoRef
    /\ value' = v
    /\ result' = check(heap, contract, v)
    /\ op' = Call("check", heap[contract].fn, <<>>)
    /\ ret' = NoRef
    /\ UNCHANGED <<heap, contract, tried, frame>>

NextCall ==
    \/ \E fn \in Functions \cup {NotCallable} : CallCons(fn)
    \/ \E v \in CallValues : CallCheck(v)

SpecCall == InitOr /\ [][NextCall]_vars

ConfigurationErrors == {"RuntimeError", "TypeError"}

\* C7: CallC(fn) raises a configuration error, never a validation error,
\* unless fn is a callable with exactly one required argument, and returns
\* only for such a callable; check(v) of a CallC raises exactly when fn
\* returns a non-empty message for v, and raises ContractValidationError
\* with that message.
C7_CallArity ==
    /\ op.name = "CallC" =>
          /\ (result = Returned) <=>
                (op.x.callable /\ op.x.args - op.x.defaults = 1)
          /\ result # Returned => result.exc \in ConfigurationErrors
    /\ op.name = "check" =>
          LET error == op.x.ret[value.t]
          IN IF error # None /\ error # Some("")
             THEN result = Contract_failure(error[1])
             ELSE result = Returned

(***************************************************************************)
(* The guard: fn(a, b, c=None) guarded by a StringC or an IntC on any of   *)
(* its parameters, and called with a and b and possibly c, each            *)
(* positionally or by keyword, with strings and ints.  A call of the       *)
(* decorated function takes one step per (name, value) pair and one step   *)
(* for the call of fn.                                                     *)
(***************************************************************************)
GuardKwargs ==
    UNION {[K -> {Class("StringC"), Class("IntC")}] : K \in SUBSET {"a", "b", "c"}}

GuardValues == {PyStr(1), PyInt(1)}

\* The calls that bind to fn(a, b, c=None): n positional arguments, the rest
\* of a and b by keyword, c by keyword or left out.
GuardCalls ==
    {call \in [args : SeqsUpTo(GuardValues, Len(FnArgs)),
               kwargs : UNION {[K -> GuardValues] : K \in SUBSET {"a", "b", "c"}}] :
        /\ \A i \in 1..Len(call.args) : FnArgs[i] \notin DOMAIN call.kwargs
        /\ \A i \in 1..2 : i <= Len(call.args) \/ FnArgs[i] \in DOMAIN call.kwargs}

\* The orders in which a dict with the keys K may enumerate them.
Orders(K) ==
    {o \in [1..Cardinality(K) -> K] : \A k \in K : \E i \in DOMAIN o : o[i] = k}

\* The state after guard was called with outcome g.
Guarded(call, g) ==
    /\ op = NoCall
    /\ heap' = g.h
    /\ contract' = g.ref
    /\ ret' = g.ref
    /\ result' = Raised(g.exc, g.msg)
    /\ op' = call
    /\ UNCHANGED <<value, tried, frame>>

\* guard(a=..., c=...): the decorator is built
Guard(kwargs) == Guarded(Call("guard", <<>>, kwargs), Guard_init(heap, kwargs))

\* decor is entered with positional arguments args and keyword arguments kwargs
DecorCall(args, kwargs, order) ==
    /\ contract # NoRef
    /\ frame.pc \in {"idle", "done"}
    /\ op' = Call("decor", args, kwargs)
    /\ frame' = [pc |-> "checking", pending |-> Decor_pairs(args, kwargs, order),
                 invoked |-> 0, returned |-> <<>>]
    /\ result' = NotCalled
    /\ UNCHANGED <<heap, contract, value, ret, tried>>

\* one turn of the loop: if argname in contracts: contracts[argname].check(value)
DecorCheck ==
    /\ frame.pc = "checking"
    /\ frame.pending # <<>>
    /\ LET pair == Head(frame.pending)
           contracts == heap[contract].contracts
           r == IF pair.name \in DOMAIN contracts
                THEN check(heap, contracts[pair.name], pair.value)
                ELSE Returned
       IN IF r = Returned
          THEN /\ frame' = [frame EXCEPT !.pending = Tail(@)]
               /\ UNCHANGED result
          ELSE /\ frame' = [frame EXCEPT !.pc = "done"]
               /\ result' = IF r.exc = "ContractValidationError"
                            THEN Raised("GuardValidationError", r.msg)
                            ELSE r
    /\ UNCHANGED <<heap, contract, value, op, ret, tried>>

\* the last line of decor: return the call of fn with the arguments as given
DecorInvoke ==
    /\ frame.pc = "checking"
    /\ frame.pending = <<>>
    /\ frame' = [frame EXCEPT !.pc = "done", !.invoked = @ + 1,
                              !.returned = Fn(op.x, op.y)]
    /\ result' = Returned
    /\ UNCHANGED <<heap, contract, value, op, ret, tried>>

NextGuard ==
    \/ \E kwargs \in GuardKwargs : Guard(kwargs)
    \/ \E call \in GuardCalls :
          \E order \in Orders(DOMAIN call.kwargs) :
             DecorCall(call.args, call.kwargs, order)
    \/ DecorCheck
    \/ DecorInvoke

SpecGuard == InitOr /\ [][NextGuard]_vars

\* The arguments supplied in the call, by parameter name.
Supplied(args, kwargs) ==
    [n \in {FnArgs[i] : i \in 1..Len(args)} \cup DOMAIN kwargs |->
        IF n \in DOMAIN kwargs THEN kwargs[n]
        ELSE args[CHOOSE i \in 1..Len(args) : FnArgs[i] = n]]

\* C3: on every call of a guarded function, fn is invoked, once, after all
\* checks, and its result returned, iff every argument supplied in the call,
\* positionally or by keyword, whose name has a contract passes that
\* contract's check; otherwise fn is never invoked and the call raises
\* GuardValidationError with the message of a failing contract.  Parameters
\* without a contract and parameters not supplied are not checked.
C3_GuardedCall ==
    op.name = "decor" =>
        LET contracts == heap[contract].contracts
            supplied == Supplied(op.x, op.y)
            failing == {n \in DOMAIN supplied \cap DOMAIN contracts :
                           ~Accepts(heap, contracts[n], supplied[n])}
        IN /\ frame.invoked <= 1
           /\ frame.invoked = 1 => (failing = {} /\ frame.pc = "done")
           /\ frame.pc = "done" =>
                IF failing = {}
                THEN /\ frame.invoked = 1
                     /\ result = Returned
                     /\ frame.returned = Fn(op.x, op.y)
                ELSE /\ frame.invoked = 0
                     /\ result.exc = "GuardValidationError"
                     /\ \E n \in failing :
                           result.msg = check(heap, contracts[n], supplied[n]).msg

\* fn guarded on a and c is called with a valid a by keyword and without c:
\* it is invoked and returns (a, b, None).
C3_Witness ==
    /\ op.name = "decor"
    /\ DOMAIN heap[contract].contracts = {"a", "c"}
    /\ heap[heap[contract].contracts["c"]].cls = "IntC"
    /\ op.x = <<>>
    /\ DOMAIN op.y = {"a", "b"}
    /\ frame.pc = "done"
    /\ frame.invoked = 1
    /\ frame.returned = <<PyStr(1), PyInt(1), PyNone>>

(***************************************************************************)
(* Coercion: every place that takes a nested contract is given, once, one  *)
(* or two of: a contract instance, an int, a function, a contract class    *)
(* and the class int.                                                      *)
(***************************************************************************)
CoerceHeap == <<StringC_init(FALSE), [cls |-> "int"], [cls |-> "function"]>>

CoerceParams ==
    {Instance(r) : r \in Refs(CoerceHeap)}
        \cup {Class("IntC"), Class("NullC"), Class("int")}

InitCoerce ==
    /\ heap = CoerceHeap
    /\ contract = NoRef
    /\ value = NoValue
    /\ result = NotCalled
    /\ op = NoCall
    /\ ret = NoRef
    /\ tried = <<>>
    /\ frame = NoFrame

\* The state after the one construction, with outcome r.
Constructed(call, r) ==
    /\ op = NoCall
    /\ heap' = r.h
    /\ ret' = r.ref
    /\ result' = Raised(r.exc, r.msg)
    /\ op' = call
    /\ UNCHANGED <<contract, value, tried, frame>>

\* OrC(p, q)
CoerceOrC(p, q) ==
    Constructed(Call("OrC", <<p, q>>, <<>>), OrC_init(heap, <<p, q>>))

\* OrC << p
CoerceLshift(p) ==
    Constructed(Call("lshift", <<p>>, <<>>), OrCMeta_lshift(heap, p))

\* ListC(p, min_length)
CoerceListC(p, min_length) ==
    Constructed(Call("ListC", <<p>>, <<>>), ListC_init(heap, p, min_length, None))

\* DictC(a=p, b=q)
CoerceDictC(p, q) ==
    Constructed(Call("DictC", <<p, q>>, <<>>),
                DictC_init(heap, [k \in {"a", "b"} |-> IF k = "a" THEN p ELSE q]))

\* guard(a=p, b=q)
CoerceGuard(p, q) ==
    Constructed(Call("guard", <<p, q>>, <<>>),
                Guard_init(heap, [k \in {"a", "b"} |-> IF k = "a" THEN p ELSE q]))

NextCoerce ==
    \/ \E p \in CoerceParams, q \in CoerceParams : CoerceOrC(p, q)
    \/ \E p \in CoerceParams : CoerceLshift(p)
    \/ \E p \in CoerceParams, n \in 0..1 : CoerceListC(p, n)
    \/ \E p \in CoerceParams, q \in CoerceParams : CoerceDictC(p, q)
    \/ \E p \in CoerceParams, q \in CoerceParams : CoerceGuard(p, q)

SpecCoerce == InitCoerce /\ [][NextCoerce]_vars

\* The sub-contracts the object holds, in the order they were given.
Held(obj) ==
    CASE obj.cls = "OrC" -> obj.contracts
      [] obj.cls = "ListC" -> <<obj.contract>>
      [] obj.cls \in {"DictC", "guard"} ->
            [i \in 1..Len(Keys(DOMAIN obj.contracts)) |->
                obj.contracts[Keys(DOMAIN obj.contracts)[i]]]
      [] OTHER -> <<>>

IsContractClass(p) == p.kind = "class" /\ p.cls \in ContractClasses

\* C6: wherever a nested contract is accepted (OrC, <<, ListC, DictC,
\* guard), a contract instance is kept as it is and a contract class is
\* replaced by a new instance of it; anything else makes the construction
\* raise a configuration error, not a validation error; so nothing built
\* holds a non-contract where a sub-contract is expected.
C6_CoercionEverywhere ==
    op.name # "" =>
        LET params == op.x
        IN IF \A i \in 1..Len(params) :
                 IsContractInstance(CoerceHeap, params[i]) \/ IsContractClass(params[i])
           THEN /\ result = Returned
                /\ Len(Held(heap[ret])) = Len(params)
                /\ \A i \in 1..Len(params) :
                      IF params[i].kind = "instance"
                      THEN Held(heap[ret])[i] = params[i].ref
                      ELSE /\ Held(heap[ret])[i] \notin Refs(CoerceHeap)
                           /\ heap[Held(heap[ret])[i]].cls = params[i].cls
           ELSE /\ result.exc \in ConfigurationErrors
                /\ heap = CoerceHeap

(***************************************************************************)
(* The numeric contracts: every IntC / FloatC with bounds in 0..MaxNum or  *)
(* unset, checked against ints, floats, a string and None.                 *)
(***************************************************************************)
OptBounds == {None} \cup {Some(a) : a \in 0..MaxNum}

NumValues ==
    {PyInt(n) : n \in 0..MaxNum} \cup {PyFloat(n) : n \in 0..MaxNum}
        \cup {PyStr(3), PyNone}

NumContracts ==
    {IntC_init(a, b) : a \in OptBounds, b \in OptBounds}
        \cup {FloatC_init(a, b) : a \in OptBounds, b \in OptBounds}

InitNum ==
    /\ \E c \in NumContracts : heap = <<c>>
    /\ contract = 1
    /\ value = NoValue
    /\ result = NotCalled
    /\ op = NoCall
    /\ ret = NoRef
    /\ tried = <<>>
    /\ frame = NoFrame

IntCheck(v) ==
    /\ heap[contract].cls = "IntC"
    /\ value' = v
    /\ result' = check(heap, contract, v)
    /\ UNCHANGED <<heap, contract, op, ret, tried, frame>>

FloatCheck(v) ==
    /\ heap[contract].cls = "FloatC"
    /\ value' = v
    /\ result' = check(heap, contract, v)
    /\ UNCHANGED <<heap, contract, op, ret, tried, frame>>

NextNum ==
    \/ \E v \in NumValues : IntCheck(v)
    \/ \E v \in NumValues : FloatCheck(v)

SpecNum == InitNum /\ [][NextNum]_vars

InBounds(c, n) ==
    /\ c.min = None \/ c.min[1] <= n
    /\ c.max = None \/ n <= c.max[1]

\* C9: IntC(min_=a, max_=b).check(v) returns iff v is an int and a <= v <= b
\* (an unset bound imposes no limit, a value equal to a bound is accepted),
\* likewise FloatC for floats; FloatC rejects every int with "value is not
\* float", IntC rejects every float with "value is not int", and the type
\* failure is reported before any bound failure.
C9_NumericBounds ==
    result # NotCalled =>
        LET c == heap[contract]
            want == IF c.cls = "IntC" THEN "int" ELSE "float"
            typeMsg == IF c.cls = "IntC" THEN "value is not int"
                       ELSE "value is not float"
        IN /\ (result = Returned) <=> (value.t = want /\ InBounds(c, value.n))
           /\ result # Returned => result.exc = "ContractValidationError"
           /\ value.t # want => result.msg = typeMsg
           /\ value.t = want /\ result # Returned => result.msg # typeMsg

\* A FloatC whose bounds admit 1 is given the int 1.
C9_Witness ==
    /\ heap[contract] = FloatC_init(Some(1), Some(2))
    /\ value = PyInt(1)
    /\ result = Contract_failure("value is not float")

(***************************************************************************)
(* The list contract: ListC over an IntC or StringC item contract, with    *)
(* min_length in 0..MaxLen and max_length unset or in 0..MaxLen, checked   *)
(* against lists of up to MaxLen items and against non-list values.        *)
(***************************************************************************)
ListItems == {PyInt(1), PyInt(2), PyStr(1)}

ListValues ==
    {PyList(s) : s \in SeqsUpTo(ListItems, MaxLen)}
        \cup {PyInt(1), PyStr(2), PyNone, PyDict(<<>>)}

ListItemContracts ==
    {IntC_init(None, None), IntC_init(None, Some(1)), StringC_init(FALSE)}

ListItemParams == {Instance(1), Class("IntC"), Class("StringC")}

InitList ==
    /\ \E c \in ListItemContracts, p \in ListItemParams, lo \in 0..MaxLen,
          hi \in {None} \cup {Some(k) : k \in 0..MaxLen} :
          LET l == ListC_init(<<c>>, p, lo, hi)
          IN heap = l.h /\ contract = l.ref
    /\ value = NoValue
    /\ result = NotCalled
    /\ op = NoCall
    /\ ret = NoRef
    /\ tried = <<>>
    /\ frame = NoFrame

ListCheck(v) ==
    /\ value' = v
    /\ result' = check(heap, contract, v)
    /\ UNCHANGED <<heap, contract, op, ret, tried, frame>>

NextList == \E v \in ListValues : ListCheck(v)

SpecList == InitList /\ [][NextList]_vars

Rejected(h, c, v) == check(h, c, v) # Returned

\* C8: ListC.check reports only the first failure, in a fixed order: "value
\* is not list" for a non-list; else "list length is less than <min_length>";
\* else "list length is greater than <max_length>" when max_length is set;
\* else the item contract's own failure for the lowest-index rejected item;
\* and it returns iff none of these applies.
C8_ListOrder ==
    result # NotCalled =>
        LET self == heap[contract]
            len == Len(value.items)
            bad == {i \in 1..len : Rejected(heap, self.contract, value.items[i])}
        IN IF value.t # "list"
           THEN result = Contract_failure("value is not list")
           ELSE IF len < self.min_length
           THEN result = Contract_failure("list length is less than "
                                          \o ToString(self.min_length))
           ELSE IF self.max_length # None /\ len > self.max_length[1]
           THEN result = Contract_failure("list length is greater than "
                                          \o ToString(self.max_length[1]))
           ELSE IF bad # {}
           THEN LET first == CHOOSE i \in bad : \A j \in bad : i <= j
                IN result = check(heap, self.contract, value.items[first])
           ELSE result = Returned

\* A list that is too short and also holds an invalid item: the length
\* violation is the one reported.
C8_Witness ==
    /\ heap[contract].cls = "ListC"
    /\ heap[contract].min_length = 2
    /\ heap[heap[contract].contract] = IntC_init(None, None)
    /\ value = PyList(<<PyStr(1)>>)
    /\ result = Contract_failure("list length is less than 2")

====
